---- MODULE Spec2Model ----
(***************************************************************************)
(* Hospital MVP (src/hospital_mvp.py): the SQLite store of patients,       *)
(* appointments, consultations and invoices, the domain operations on it,  *)
(* and the handlers of the Tk application that call them.                  *)
(*                                                                         *)
(* A table is a function from the ids of its rows to the rows.  The        *)
(* foreign-key columns, status, amount and paid are all kept; of the       *)
(* free-text columns, which no statement reads back into a decision,       *)
(* patients keeps first_name and appointments keeps doctor.  Amounts are   *)
(* whole numbers.                                                          *)
(***************************************************************************)
EXTENDS Integers, Sequences, FiniteSets, TLC

\* Bound of the model: the number of rows the four tables hold together.
MaxRows == 5

VARIABLES
    db,            \* the committed content of hospital_mvp.db
    foreign_keys,  \* whether the SQLite build enforces the FOREIGN KEY clauses
    add_patient_ids, \* history: the ids add_patient has returned
    generated,     \* history: the generate_invoice calls that returned, and
                   \* the sum of their amounts
    conn,          \* add_consultation's connection, statement by statement:
                   \* where the call stands and the uncommitted content it sees
    tog            \* per application instance, where its toggle_invoice_paid
                   \* stands, with the iid it selected and the paid it read

vars == <<db, foreign_keys, add_patient_ids, generated, conn, tog>>

\* The first names add_patient is called with.
FirstNames == {"Carol"}

\* The doctors add_appointment is called with.
Doctors == {"Dr. Smith"}

\* The amounts generate_invoice is called with.
Amounts == {50, 75}

Tables == {"patients", "appointments", "consultations", "invoices"}

\* init_db: the four tables, empty, and sqlite_sequence with no row.
EmptyDb ==
    [patients |-> <<>>, appointments |-> <<>>, consultations |-> <<>>,
     invoices |-> <<>>, seq |-> [t \in Tables |-> 0]]

Ids(table) == DOMAIN table

\* The rows of the four tables together, which MaxRows caps.
Rows(d) ==
    Cardinality(Ids(d.patients)) + Cardinality(Ids(d.appointments))
        + Cardinality(Ids(d.consultations)) + Cardinality(Ids(d.invoices))

Max(S) == CHOOSE m \in S : \A x \in S : x <= m

\* INTEGER PRIMARY KEY AUTOINCREMENT: one more than the largest rowid the
\* table has ever held (sqlite_sequence) or holds now.
NextId(d, t) == Max({d.seq[t]} \cup Ids(d[t])) + 1

\* INSERT INTO t: the row under a new id; sqlite_sequence follows.
Insert(d, t, row) ==
    LET id == NextId(d, t)
    IN [d EXCEPT ![t] = [i \in Ids(d[t]) \cup {id} |->
                            IF i = id THEN row ELSE d[t][i]],
                 !.seq[t] = id]

\* cursor.lastrowid after an INSERT INTO t.
LastRowId(d, t) == d.seq[t]

\* A FOREIGN KEY clause on a column holding `id`, referencing table t: it
\* is checked only when the build enforces foreign keys.
FkOk(d, t, id) == ~foreign_keys \/ id \in Ids(d[t])

\* The ids a caller may pass for a row of table t: those of its rows, and
\* the next one, which no row has yet.
IdArgs(d, t) == Ids(d[t]) \cup {NextId(d, t)}

\* No add_consultation call is in progress.
Closed == [pc |-> "closed", work |-> EmptyDb, appointment_id |-> 0]

\* The application instances that may have hospital_mvp.db open at once.
Instances == {"app1", "app2"}

\* An instance with no toggle call in progress.
NoToggle == [pc |-> "idle", iid |-> 0, paid |-> 0]

Init ==
    /\ db = EmptyDb
    /\ foreign_keys \in BOOLEAN
    /\ add_patient_ids = {}
    /\ generated = [calls |-> 0, amount |-> 0]
    /\ conn = Closed
    /\ tog = [c \in Instances |-> NoToggle]

\* add_patient(first, last, dob, phone, notes)
AddPatient(first) ==
    /\ Rows(db) < MaxRows
    /\ db' = Insert(db, "patients", [first_name |-> first])
    /\ add_patient_ids' = add_patient_ids \cup {LastRowId(db', "patients")}
    /\ UNCHANGED <<foreign_keys, generated, conn, tog>>

\* get_patient(pid): the row, or no row (fetchone() gives None).
get_patient(d, pid) == IF pid \in Ids(d.patients) THEN <<d.patients[pid]>> ELSE <<>>

\* Mutant of list_patients: ORDER BY id ASC.
RECURSIVE OrderByIdAsc(_)
OrderByIdAsc(S) ==
    IF S = {} THEN <<>> ELSE OrderByIdAsc(S \ {Max(S)}) \o <<Max(S)>>

list_patients_Ascending(d) == OrderByIdAsc(Ids(d.patients))

\* ORDER BY id DESC over the ids S: the largest first.
RECURSIVE OrderByIdDesc(_)
OrderByIdDesc(S) ==
    IF S = {} THEN <<>> ELSE <<Max(S)>> \o OrderByIdDesc(S \ {Max(S)})

\* list_patients(): SELECT id, ... FROM patients ORDER BY id DESC (the ids).
list_patients(d) == OrderByIdDesc(Ids(d.patients))

\* add_appointment(patient_id, doctor, dt_str, reason): status takes the
\* column's DEFAULT 'scheduled'.  An enforced foreign key makes the INSERT
\* raise IntegrityError and nothing is written.
AddAppointment(patient_id, doctor) ==
    /\ Rows(db) < MaxRows
    /\ IF FkOk(db, "patients", patient_id)
       THEN /\ db' = Insert(db, "appointments",
                       [patient_id |-> patient_id, doctor |-> doctor,
                        status |-> "scheduled"])
       ELSE /\ db' = db
    /\ UNCHANGED <<foreign_keys, add_patient_ids, generated, conn, tog>>

\* Mutant of UpdateStatusCompleted: the UPDATE without its WHERE clause.
UpdateStatusCompleted_NoWhere(d, appointment_id) ==
    [d EXCEPT !.appointments =
        [a \in Ids(d.appointments) |->
            [d.appointments[a] EXCEPT !.status = "completed"]]]

\* Mutant of UpdateStatusCompleted: REPLACE INTO appointments (id, status),
\* which rewrites the row with its other columns NULL (here 0 and "").
UpdateStatusCompleted_Replace(d, appointment_id) ==
    [d EXCEPT !.appointments =
        [a \in Ids(d.appointments) |->
            IF a = appointment_id
            THEN [patient_id |-> 0, doctor |-> "", status |-> "completed"]
            ELSE d.appointments[a]]]

\* UPDATE appointments SET status='completed' WHERE id=?
UpdateStatusCompleted(d, appointment_id) ==
    [d EXCEPT !.appointments =
        [a \in Ids(d.appointments) |->
            IF a = appointment_id
            THEN [d.appointments[a] EXCEPT !.status = "completed"]
            ELSE d.appointments[a]]]

\* INSERT INTO consultations (appointment_id, patient_id, ...)
InsertConsultation(d, appointment_id, patient_id) ==
    Insert(d, "consultations",
           [appointment_id |-> appointment_id, patient_id |-> patient_id])

\* add_consultation(appointment_id, patient_id, doctor, notes, prescription):
\* the INSERT, the UPDATE, then one commit of both.
AddConsultation(appointment_id, patient_id) ==
    /\ Rows(db) < MaxRows
    /\ IF FkOk(db, "appointments", appointment_id) /\ FkOk(db, "patients", patient_id)
       THEN /\ db' = UpdateStatusCompleted(
                        InsertConsultation(db, appointment_id, patient_id),
                        appointment_id)
       ELSE /\ db' = db
    /\ UNCHANGED <<foreign_keys, add_patient_ids, generated, conn, tog>>

\* generate_invoice(patient_id, appointment_id, amount): paid takes the
\* column's DEFAULT 0.
GenerateInvoice(patient_id, appointment_id, amount) ==
    /\ Rows(db) < MaxRows
    /\ IF FkOk(db, "patients", patient_id) /\ FkOk(db, "appointments", appointment_id)
       THEN /\ db' = Insert(db, "invoices",
                       [patient_id |-> patient_id, appointment_id |-> appointment_id,
                        amount |-> amount, paid |-> 0])
            /\ generated' = [calls |-> generated.calls + 1,
                              amount |-> generated.amount + amount]
       ELSE UNCHANGED <<db, generated>>
    /\ UNCHANGED <<foreign_keys, add_patient_ids, conn, tog>>

\* list_invoices(): invoices i JOIN patients p ON i.patient_id=p.id (the ids;
\* an invoice whose patient_id has no patient row is not listed).
list_invoices(d) == {i \in Ids(d.invoices) : d.invoices[i].patient_id \in Ids(d.patients)}

\* Mutant of Flip: the toggle marks the invoice paid whatever it was.
Flip_AlwaysPaid(paid) == 1

\* 0 if paid else 1
Flip(paid) == IF paid # 0 THEN 0 ELSE 1

\* UPDATE invoices SET paid=? WHERE id=? with (0 if paid else 1, iid), paid
\* being what the SELECT gave.
WritePaid(d, iid, paid) ==
    [d EXCEPT !.invoices =
        [i \in Ids(d.invoices) |->
            IF i = iid THEN [d.invoices[i] EXCEPT !.paid = Flip(paid)]
            ELSE d.invoices[i]]]

\* SELECT paid FROM invoices WHERE id=?, then
\* UPDATE invoices SET paid=? WHERE id=? with the flipped value.
TogglePaid(d, iid) ==
    LET paid == d.invoices[iid].paid
    IN WritePaid(d, iid, paid)

\* HospitalApp.toggle_invoice_paid: iid is the selected row of inv_tree, which
\* refresh_invoice_list fills from list_invoices().
ToggleInvoicePaid(iid) ==
    /\ iid \in list_invoices(db)
    /\ db' = TogglePaid(db, iid)
    /\ UNCHANGED <<foreign_keys, add_patient_ids, generated, conn, tog>>

\* Mutant of SeedStore: the guard is ifc > 1.
SeedStore_GuardOffByOne(d) ==
    IF Cardinality(Ids(d.patients)) > 1
    THEN d
    ELSE LET d1 == Insert(d, "patients", [first_name |-> "Alice"])
             d2 == Insert(d1, "patients", [first_name |-> "Bob"])
             d3 == Insert(d2, "appointments",
                          [patient_id |-> 1, doctor |-> "Dr. Patel",
                           status |-> "scheduled"])
             d4 == Insert(d3, "appointments",
                          [patient_id |-> 2, doctor |-> "Dr. Jones",
                           status |-> "scheduled"])
         IN d4

\* seed_sample_data(): nothing when patients has a row; else two patients,
\* a commit, and two appointments for patient ids 1 and 2.
SeedStore(d) ==
    IF Cardinality(Ids(d.patients)) > 0
    THEN d
    ELSE LET d1 == Insert(d, "patients", [first_name |-> "Alice"])
             d2 == Insert(d1, "patients", [first_name |-> "Bob"])
             d3 == Insert(d2, "appointments",
                          [patient_id |-> 1, doctor |-> "Dr. Patel",
                           status |-> "scheduled"])
             d4 == Insert(d3, "appointments",
                          [patient_id |-> 2, doctor |-> "Dr. Jones",
                           status |-> "scheduled"])
         IN d4

\* The call of seed_sample_data() that __main__ makes at every launch.
SeedSampleData ==
    /\ Rows(SeedStore(db)) <= MaxRows
    /\ db' = SeedStore(db)
    /\ UNCHANGED <<foreign_keys, add_patient_ids, generated, conn, tog>>

\* SUM(amount) over the invoices S: NULL (here <<>>) when there is no row.
RECURSIVE SumAmount(_, _)
SumAmount(d, S) ==
    IF S = {} THEN <<>>
    ELSE LET i == Max(S)
             rest == SumAmount(d, S \ {i})
         IN <<d.invoices[i].amount + (IF rest = <<>> THEN 0 ELSE rest[1])>>

\* IFNULL(x, y)
IfNull(x, y) == IF x = <<>> THEN y ELSE x[1]

\* Mutant of refresh_admin: the sum taken over the invoices list_invoices()
\* shows, those joined to a patient.
refresh_admin_Joined(d) ==
    [patients |-> Cardinality(Ids(d.patients)),
     appts |-> Cardinality(Ids(d.appointments)),
     cons |-> Cardinality(Ids(d.consultations)),
     inv_count |-> Cardinality(Ids(d.invoices)),
     inv_sum |-> IfNull(SumAmount(d, list_invoices(d)), 0)]

\* HospitalApp.refresh_admin: the counts, and
\* SELECT COUNT(*), IFNULL(SUM(amount),0) FROM invoices.
refresh_admin(d) ==
    [patients |-> Cardinality(Ids(d.patients)),
     appts |-> Cardinality(Ids(d.appointments)),
     cons |-> Cardinality(Ids(d.consultations)),
     inv_count |-> Cardinality(Ids(d.invoices)),
     inv_sum |-> IfNull(SumAmount(d, Ids(d.invoices)), 0)]

\* The domain operations, each a whole call.
Next ==
    \/ \E first \in FirstNames : AddPatient(first)
    \/ \E p \in IdArgs(db, "patients"), doctor \in Doctors : AddAppointment(p, doctor)
    \/ \E a \in IdArgs(db, "appointments"), p \in IdArgs(db, "patients") :
          AddConsultation(a, p)
    \/ \E p \in IdArgs(db, "patients"), a \in IdArgs(db, "appointments"),
          amount \in Amounts : GenerateInvoice(p, a, amount)
    \/ \E iid \in Ids(db.invoices) : ToggleInvoicePaid(iid)
    \/ SeedSampleData

Spec == Init /\ [][Next]_vars

(***************************************************************************)
(* add_consultation statement by statement, with a store error at the      *)
(* UPDATE.  sqlite3.connect() leaves isolation_level at its default, so    *)
(* the module opens a transaction before the INSERT and nothing reaches    *)
(* the file before conn.commit().                                          *)
(***************************************************************************)

\* Mutant of AddConsultationInsert: a connection in autocommit mode
\* (isolation_level=None), whose INSERT reaches the file at once.
AddConsultationInsert_Autocommit(appointment_id, patient_id) ==
    /\ conn.pc = "closed"
    /\ Rows(db) < MaxRows
    /\ FkOk(db, "appointments", appointment_id)
    /\ FkOk(db, "patients", patient_id)
    /\ db' = InsertConsultation(db, appointment_id, patient_id)
    /\ conn' = [pc |-> "inserted", work |-> db',
                appointment_id |-> appointment_id]
    /\ UNCHANGED <<foreign_keys, add_patient_ids, generated, tog>>

\* c.execute("INSERT INTO consultations ..."): the row is in the
\* connection's open transaction, not in the file.
AddConsultationInsert(appointment_id, patient_id) ==
    /\ conn.pc = "closed"
    /\ Rows(db) < MaxRows
    /\ FkOk(db, "appointments", appointment_id)
    /\ FkOk(db, "patients", patient_id)
    /\ conn' = [pc |-> "inserted",
                work |-> InsertConsultation(db, appointment_id, patient_id),
                appointment_id |-> appointment_id]
    /\ UNCHANGED <<db, foreign_keys, add_patient_ids, generated, tog>>

\* c.execute("UPDATE appointments SET status='completed' WHERE id=?")
AddConsultationUpdate ==
    /\ conn.pc = "inserted"
    /\ conn' = [conn EXCEPT !.pc = "updated",
                            !.work = UpdateStatusCompleted(conn.work, conn.appointment_id)]
    /\ UNCHANGED <<db, foreign_keys, add_patient_ids, generated, tog>>

\* The UPDATE raises sqlite3.Error: the exception leaves add_consultation
\* before conn.commit(), and the connection goes away with its transaction.
AddConsultationUpdateFails ==
    /\ conn.pc = "inserted"
    /\ conn' = Closed
    /\ UNCHANGED <<db, foreign_keys, add_patient_ids, generated, tog>>

\* conn.commit(); cid = c.lastrowid; conn.close()
AddConsultationCommit ==
    /\ conn.pc = "updated"
    /\ db' = conn.work
    /\ conn' = Closed
    /\ UNCHANGED <<foreign_keys, add_patient_ids, generated, tog>>

\* The other calls run between add_consultation calls: the application has
\* one thread.
NextTxn ==
    \/ /\ conn.pc = "closed"
       /\ \/ \E first \in FirstNames : AddPatient(first)
          \/ \E p \in IdArgs(db, "patients"), doctor \in Doctors : AddAppointment(p, doctor)
          \/ \E p \in IdArgs(db, "patients"), a \in IdArgs(db, "appointments"),
                amount \in Amounts : GenerateInvoice(p, a, amount)
          \/ SeedSampleData
    \/ \E a \in IdArgs(db, "appointments"), p \in IdArgs(db, "patients") :
          AddConsultationInsert(a, p)
    \/ AddConsultationUpdate
    \/ AddConsultationUpdateFails
    \/ AddConsultationCommit

SpecTxn == Init /\ [][NextTxn]_vars

(***************************************************************************)
(* toggle_invoice_paid in two application instances on the same file: the  *)
(* SELECT and the UPDATE are two statements, and the other instance may    *)
(* run between them.                                                       *)
(***************************************************************************)

Other(c) == CHOOSE o \in Instances : o # c

\* c.execute("SELECT paid FROM invoices WHERE id=?"); paid = c.fetchone()[0]
ToggleRead(c, iid) ==
    /\ tog[c].pc = "idle"
    /\ iid \in list_invoices(db)
    /\ tog' = [tog EXCEPT ![c] = [pc |-> "read", iid |-> iid,
                                  paid |-> db.invoices[iid].paid]]
    /\ UNCHANGED <<db, foreign_keys, add_patient_ids, generated, conn>>

\* Mutant of ToggleWrite: one atomic UPDATE invoices SET paid = NOT paid.
ToggleWrite_Atomic(c) ==
    /\ tog[c].pc = "read"
    /\ db' = TogglePaid(db, tog[c].iid)
    /\ tog' = [tog EXCEPT ![c] = NoToggle]
    /\ UNCHANGED <<foreign_keys, add_patient_ids, generated, conn>>

\* c.execute("UPDATE invoices SET paid=? WHERE id=?"); conn.commit()
ToggleWrite(c) ==
    /\ tog[c].pc = "read"
    /\ db' = WritePaid(db, tog[c].iid, tog[c].paid)
    /\ tog' = [tog EXCEPT ![c] = NoToggle]
    /\ UNCHANGED <<foreign_keys, add_patient_ids, generated, conn>>

\* list_appointments(): appointments a JOIN patients p ON a.patient_id=p.id
\* (the ids; an appointment whose patient_id has no patient row is not
\* listed).
list_appointments(d) ==
    {a \in Ids(d.appointments) : d.appointments[a].patient_id \in Ids(d.patients)}

\* HospitalApp.handle_add_patient, first and last name given.
HandleAddPatient(first) == AddPatient(first)

\* HospitalApp.new_appointment_dialog: for patients[0][0], the newest patient.
NewAppointmentDialog(doctor) ==
    /\ list_patients(db) # <<>>
    /\ AddAppointment(list_patients(db)[1], doctor)

\* HospitalApp.open_appointment_actions: aid is the selected row of
\* appt_tree, pid its appointment's patient_id.
OpenAppointmentActions(aid) ==
    /\ aid \in list_appointments(db)
    /\ AddConsultation(aid, db.appointments[aid].patient_id)

\* HospitalApp.create_invoice_dialog: aid is appts[0][0], the listed
\* appointment whose datetime text sorts last, which may be any of them;
\* pid is its patient_id.
CreateInvoiceDialog(aid, amount) ==
    /\ aid \in list_appointments(db)
    /\ GenerateInvoice(db.appointments[aid].patient_id, aid, amount)

\* What the handlers of two running instances do to the one file.
NextConc ==
    \/ SeedSampleData
    \/ \E first \in FirstNames : HandleAddPatient(first)
    \/ \E doctor \in Doctors : NewAppointmentDialog(doctor)
    \/ \E aid \in Ids(db.appointments) : OpenAppointmentActions(aid)
    \/ \E aid \in Ids(db.appointments), amount \in Amounts : CreateInvoiceDialog(aid, amount)
    \/ \E c \in Instances, iid \in Ids(db.invoices) : ToggleRead(c, iid)
    \/ \E c \in Instances : ToggleWrite(c)

SpecConc == Init /\ [][NextConc]_vars

(***************************************************************************)
(* The claims.                                                             *)
(***************************************************************************)

StatusOf(d, a) == d.appointments[a].status

\* The consultation rows of d that reference appointment a.
ConsultationsOf(d, a) == {c \in Ids(d.consultations) : d.consultations[c].appointment_id = a}

\* add_consultation(a, p) returns rather than raises.
Accepted(a, p) == FkOk(db, "appointments", a) /\ FkOk(db, "patients", p)

\* C1: an add_consultation call that returns, made with the id of an existing
\* appointment, leaves that appointment "completed" whether it was
\* "scheduled" or "completed" before, and leaves the status of every other
\* appointment as it was.
C1_ConsultationCompletesOnlyItsAppointment ==
    [][\A a \in Ids(db.appointments), p \in IdArgs(db, "patients") :
          AddConsultation(a, p) /\ Accepted(a, p) =>
              /\ StatusOf(db', a) = "completed"
              /\ \A b \in Ids(db.appointments) \ {a} : StatusOf(db', b) = StatusOf(db, b)]_vars

\* An appointment completed twice over (a second consultation was recorded
\* against it when it was already "completed") beside one still "scheduled".
C1_Witness ==
    \E a, b \in Ids(db.appointments) :
        /\ Cardinality(ConsultationsOf(db, a)) >= 2
        /\ StatusOf(db, a) = "completed"
        /\ StatusOf(db, b) = "scheduled"

\* C2: in every reachable state an appointment is "completed" exactly when
\* a consultation row references its id, and "scheduled" otherwise.
C2_CompletedIffConsultation ==
    \A a \in Ids(db.appointments) :
        /\ StatusOf(db, a) \in {"scheduled", "completed"}
        /\ StatusOf(db, a) = "completed" <=> ConsultationsOf(db, a) # {}

\* C3: a generated invoice starts with paid = 0; a toggle of an invoice with
\* paid = 0 leaves it 1 and of one with paid = 1 leaves it 0, a second
\* toggle of the same invoice gives back the store as it was before the
\* first, and a toggle changes neither paid nor amount of another invoice.
C3_ToggleFlipsAndTwiceRestores ==
    [][/\ \A i \in Ids(db'.invoices) \ Ids(db.invoices) : db'.invoices[i].paid = 0
       /\ \A iid \in Ids(db.invoices) :
             ToggleInvoicePaid(iid) =>
                 /\ db.invoices[iid].paid = 0 => db'.invoices[iid].paid = 1
                 /\ db.invoices[iid].paid = 1 => db'.invoices[iid].paid = 0
                 /\ db.invoices[iid].paid \in {0, 1}
                 /\ TogglePaid(db', iid) = db
                 /\ \A j \in Ids(db.invoices) \ {iid} :
                       /\ db'.invoices[j].paid = db.invoices[j].paid
                       /\ db'.invoices[j].amount = db.invoices[j].amount]_vars

\* An invoice that a toggle has left paid, beside another that is unpaid.
C3_Witness ==
    \E i, j \in list_invoices(db) :
        /\ i # j
        /\ db.invoices[i].paid = 1
        /\ db.invoices[j].paid = 0

\* Whether the sequence of ids s is strictly descending.
Descending(s) == \A k \in 1..(Len(s) - 1) : s[k] > s[k + 1]

\* C4: each add_patient call returns an id greater than every id an earlier
\* add_patient call returned and held by no row before, and list_patients()
\* right after it gives that id first, every patient once, ids descending.
C4_AddPatientIdsIncreaseAndListNewestFirst ==
    [][\A first \in FirstNames :
          AddPatient(first) =>
              LET pid == LastRowId(db', "patients")
                  rows == list_patients(db')
              IN /\ \A q \in add_patient_ids : pid > q
                 /\ pid \notin Ids(db.patients)
                 /\ add_patient_ids' = add_patient_ids \cup {pid}
                 /\ db'.patients[pid].first_name = first
                 /\ Len(rows) = Cardinality(Ids(db'.patients))
                 /\ rows[1] = pid
                 /\ Descending(rows)
                 /\ \A q \in Ids(db'.patients) : \E k \in 1..Len(rows) : rows[k] = q]_vars

\* add_patient has returned twice.
C4_Witness == Cardinality(add_patient_ids) >= 2

\* C5: the dashboard's invoice sum is the sum of the amounts of the
\* generate_invoice calls that returned, paid or not and whatever patient id
\* they carry; its invoice count is the number of those calls; with no
\* invoice the sum is 0.
C5_DashboardSumAndCount ==
    /\ refresh_admin(db).inv_sum = generated.amount
    /\ refresh_admin(db).inv_count = generated.calls
    /\ Ids(db.invoices) = {} => refresh_admin(db).inv_sum = 0

\* Two invoices at least, one paid, one whose patient id has no patient row.
C5_Witness ==
    /\ generated.calls >= 2
    /\ \E i \in Ids(db.invoices) : db.invoices[i].paid = 1
    /\ \E i \in Ids(db.invoices) : get_patient(db, db.invoices[i].patient_id) = <<>>

\* The id the consultation row of the call in progress has.
PendingConsultation == LastRowId(conn.work, "consultations")

\* C6 as stated: when the UPDATE fails after the INSERT, the consultation
\* row is in the store and the appointment's status is as before.
C6_AsStated_RowRemainsAfterFailedUpdate ==
    [][AddConsultationUpdateFails =>
          /\ PendingConsultation \in Ids(db'.consultations)
          /\ db'.appointments = db.appointments]_vars

\* C6 as amended: when the UPDATE fails after the INSERT, the INSERT is
\* never committed: the store holds neither the consultation row nor a
\* changed status, and is as it was before the call.
C6_FailedUpdateLeavesStoreAsBefore ==
    [][AddConsultationUpdateFails =>
          /\ PendingConsultation \in Ids(conn.work.consultations)
          /\ PendingConsultation \notin Ids(db'.consultations)
          /\ db' = db
          /\ conn' = Closed]_vars

\* A call whose INSERT has run, for an existing appointment still
\* "scheduled", and whose UPDATE is next.
C6_Witness ==
    /\ conn.pc = "inserted"
    /\ conn.appointment_id \in Ids(db.appointments)
    /\ StatusOf(db, conn.appointment_id) = "scheduled"
    /\ PendingConsultation \notin Ids(db.consultations)

\* C7: seed_sample_data changes nothing when patients has a row; when it
\* has none, it adds exactly two patients, with ids 1 and 2, and exactly
\* two appointments, each "scheduled" and for one of those two patients, and
\* nothing else; a second run changes nothing.
C7_SeedOnlyWhenEmpty ==
    [][SeedSampleData =>
          /\ Ids(db.patients) # {} => db' = db
          /\ Ids(db.patients) = {} =>
                LET newA == Ids(db'.appointments) \ Ids(db.appointments)
                IN /\ Ids(db'.patients) = {1, 2}
                   /\ Cardinality(newA) = 2
                   /\ Ids(db.appointments) \subseteq Ids(db'.appointments)
                   /\ \A a \in newA :
                         /\ StatusOf(db', a) = "scheduled"
                         /\ db'.appointments[a].patient_id \in Ids(db'.patients)
                   /\ {db'.appointments[a].patient_id : a \in newA} = {1, 2}
                   /\ \A a \in Ids(db.appointments) : db'.appointments[a] = db.appointments[a]
                   /\ db'.consultations = db.consultations
                   /\ db'.invoices = db.invoices
          /\ SeedStore(db') = db']_vars

\* The seed has run on a store that already held an appointment: its
\* appointments are not the first two.
C7_Witness ==
    /\ Ids(db.patients) = {1, 2}
    /\ db.patients[1].first_name = "Alice"
    /\ \E a \in Ids(db.appointments) : a > 2 /\ db.appointments[a].doctor = "Dr. Jones"

\* C8: in every reachable state every appointment's patient id is the id
\* of a patient row.
C8_AppointmentPatientExists ==
    \A a \in Ids(db.appointments) :
        get_patient(db, db.appointments[a].patient_id) # <<>>

\* C9: no step removes a row of any table; patient and consultation rows
\* stay as created; of an appointment only status changes, and only in an
\* add_consultation call; of an invoice only paid changes, and only in a
\* toggle call.
C9_RowsOnlyAddedAndOnlyFlagsChange ==
    [][/\ \A t \in Tables : Ids(db[t]) \subseteq Ids(db'[t])
       /\ \A p \in Ids(db.patients) : db'.patients[p] = db.patients[p]
       /\ \A c \in Ids(db.consultations) : db'.consultations[c] = db.consultations[c]
       /\ \A a \in Ids(db.appointments) :
             /\ db'.appointments[a].patient_id = db.appointments[a].patient_id
             /\ db'.appointments[a].doctor = db.appointments[a].doctor
             /\ StatusOf(db', a) # StatusOf(db, a) =>
                   \E p \in IdArgs(db, "patients") : AddConsultation(a, p)
       /\ \A i \in Ids(db.invoices) :
             /\ db'.invoices[i].patient_id = db.invoices[i].patient_id
             /\ db'.invoices[i].appointment_id = db.invoices[i].appointment_id
             /\ db'.invoices[i].amount = db.invoices[i].amount
             /\ db'.invoices[i].paid # db.invoices[i].paid => ToggleInvoicePaid(i)]_vars

\* Every table has a row, an appointment is completed and an invoice paid.
C9_Witness ==
    /\ \A t \in Tables : Ids(db[t]) # {}
    /\ \E a \in Ids(db.appointments) : StatusOf(db, a) = "completed"
    /\ \E i \in Ids(db.invoices) : db.invoices[i].paid = 1

\* Instance c stands between its SELECT and its UPDATE, and the other
\* instance's UPDATE of the same invoice has come between: both had read
\* the flag before either wrote it.
StaleRead(c) ==
    /\ tog[c].pc = "read"
    /\ db.invoices[tog[c].iid].paid # tog[c].paid

\* C10: when two toggle calls on one invoice interleave so that both read
\* the flag before either writes, the second write writes the value the
\* first wrote: the flag stays flipped once from the value both read
\* instead of coming back to it.
C10_RacingTogglesFlipOnce ==
    [][\A c \in Instances :
          ToggleWrite(c) /\ StaleRead(c) =>
              /\ db'.invoices[tog[c].iid].paid = db.invoices[tog[c].iid].paid
              /\ db'.invoices[tog[c].iid].paid = Flip(tog[c].paid)
              /\ db'.invoices[tog[c].iid].paid # tog[c].paid]_vars

\* Both instances read the flag before either wrote; one has written and
\* returned, and the other still holds what it read.
C10_Witness ==
    \E c \in Instances :
        /\ StaleRead(c)
        /\ tog[Other(c)].pc = "idle"
====
